---- MODULE Spec2Model ----
(***************************************************************************)
(* Model of quotegenerator.py: a command-line quote store kept in the flat *)
(* text file quotes.txt.                                                   *)
(*                                                                         *)
(* A Python str is a sequence of one-character strings, the storage file   *)
(* is the sequence of its characters, and a quote is the record            *)
(* [text, author] for the source's tuple (text, author).  The typographic  *)
(* characters of the source (the apostrophe U+2019, the quotation marks    *)
(* U+201C/U+201D, the dash U+2014 and the emoji of the confirmations) are  *)
(* written with their ASCII counterparts: none of them is whitespace, '|', *)
(* a newline or a cased letter, so no operation of the program tells them  *)
(* apart from the stand-ins.                                               *)
(***************************************************************************)
EXTENDS Integers, Sequences, FiniteSets

VARIABLES
    fs,           \* the storage file: [exists, content]
    argv,         \* the parsed arguments of the last invocation
    ran,          \* the function main dispatched to in the last invocation
    before,       \* the storage file when the last invocation started
    loaded,       \* <<the list load_quotes returned>> in the last invocation, <<>> if not called
    out,          \* the lines the last invocation printed
    invocations,  \* how many invocations have run
    procs,        \* concurrent invocations: each process's position, command and list
    log,          \* concurrent invocations: the opens and closes of the file for writing
    rt            \* round trip: the list saved and the position in save, load, save

seqvars == <<argv, ran, before, loaded, out, invocations>>
vars == <<fs, argv, ran, before, loaded, out, invocations, procs, log, rt>>

----------------------------------------------------------------------------
(* Bounds of the model *)

\* invocations per behaviour
MaxInvocations == 2
\* the --remove arguments tried run to MaxBeyond past the end of the list
MaxBeyond == 1

----------------------------------------------------------------------------
(* Strings *)

Unknown == <<"U","n","k","n","o","w","n">>
unknown == <<"u","n","k","n","o","w","n">>

UPPER == <<"A","B","C","D","E","F","G","H","I","J","K","L","M","N","O","P","Q","R","S","T","U","V","W","X","Y","Z">>
LOWER == <<"a","b","c","d","e","f","g","h","i","j","k","l","m","n","o","p","q","r","s","t","u","v","w","x","y","z">>

ToLower == [c \in {UPPER[k] : k \in 1..26} |-> LOWER[CHOOSE k \in 1..26 : UPPER[k] = c]]

\* str.lower(), on the ASCII letters
lower(s) ==
    [i \in 1..Len(s) |-> IF s[i] \in DOMAIN ToLower THEN ToLower[s[i]] ELSE s[i]]

\* the characters str.strip() removes, among those of the model
Whitespace == {" ", "\t", "\n"}

RECURSIVE lskip(_, _)
\* the first index >= i of s that holds no whitespace, Len(s) + 1 if none
lskip(s, i) ==
    IF i > Len(s) \/ s[i] \notin Whitespace THEN i ELSE lskip(s, i + 1)

RECURSIVE rskip(_, _)
\* the last index <= i of s that holds no whitespace, 0 if none
rskip(s, i) ==
    IF i < 1 \/ s[i] \notin Whitespace THEN i ELSE rskip(s, i - 1)

\* str.strip()
strip(s) ==
    LET a == lskip(s, 1)
    IN  IF a > Len(s) THEN <<>> ELSE SubSeq(s, a, rskip(s, Len(s)))

\* the least element of a non-empty set of integers
Least(S) == CHOOSE k \in S : \A j \in S : k <= j

\* the indices of s that hold c
indices(s, c) == {k \in 1..Len(s) : s[k] = c}

\* "|" in raw
has_pipe(raw) == indices(raw, "|") # {}

\* raw.split("|", 1), for a raw that holds a "|"
split_pipe(raw) ==
    LET k == Least(indices(raw, "|"))
    IN  <<SubSeq(raw, 1, k - 1), SubSeq(raw, k + 1, Len(raw))>>

----------------------------------------------------------------------------
(* DEFAULT_QUOTES *)

\* The best way to get started is to quit talking and begin doing.|Walt Disney
DefaultLine1 == <<"T","h","e"," ","b","e","s","t"," ","w","a","y"," ","t","o"," ","g","e","t",
    " ","s","t","a","r","t","e","d"," ","i","s"," ","t","o"," ","q","u","i","t"," ","t","a","l",
    "k","i","n","g"," ","a","n","d"," ","b","e","g","i","n"," ","d","o","i","n","g",".","|","W",
    "a","l","t"," ","D","i","s","n","e","y">>
\* Whether you think you can or you think you can't, you're right.|Henry Ford
DefaultLine2 == <<"W","h","e","t","h","e","r"," ","y","o","u"," ","t","h","i","n","k"," ","y",
    "o","u"," ","c","a","n"," ","o","r"," ","y","o","u"," ","t","h","i","n","k"," ","y","o","u",
    " ","c","a","n","'","t",","," ","y","o","u","'","r","e"," ","r","i","g","h","t",".","|","H",
    "e","n","r","y"," ","F","o","r","d">>
\* It always seems impossible until it's done.|Nelson Mandela
DefaultLine3 == <<"I","t"," ","a","l","w","a","y","s"," ","s","e","e","m","s"," ","i","m","p",
    "o","s","s","i","b","l","e"," ","u","n","t","i","l"," ","i","t","'","s"," ","d","o","n","e",
    ".","|","N","e","l","s","o","n"," ","M","a","n","d","e","l","a">>
\* Stay hungry, stay foolish.|Steve Jobs
DefaultLine4 == <<"S","t","a","y"," ","h","u","n","g","r","y",","," ","s","t","a","y"," ","f",
    "o","o","l","i","s","h",".","|","S","t","e","v","e"," ","J","o","b","s">>
\* You miss 100% of the shots you don't take.|Wayne Gretzky
DefaultLine5 == <<"Y","o","u"," ","m","i","s","s"," ","1","0","0","%"," ","o","f"," ","t","h",
    "e"," ","s","h","o","t","s"," ","y","o","u"," ","d","o","n","'","t"," ","t","a","k","e",".",
    "|","W","a","y","n","e"," ","G","r","e","t","z","k","y">>
\* If you're going through hell, keep going.|Winston Churchill
DefaultLine6 == <<"I","f"," ","y","o","u","'","r","e"," ","g","o","i","n","g"," ","t","h","r",
    "o","u","g","h"," ","h","e","l","l",","," ","k","e","e","p"," ","g","o","i","n","g",".","|",
    "W","i","n","s","t","o","n"," ","C","h","u","r","c","h","i","l","l">>
\* Dream big and dare to fail.|Norman Vaughan
DefaultLine7 == <<"D","r","e","a","m"," ","b","i","g"," ","a","n","d"," ","d","a","r","e"," ",
    "t","o"," ","f","a","i","l",".","|","N","o","r","m","a","n"," ","V","a","u","g","h","a",
    "n">>
\* The secret of getting ahead is getting started.|Mark Twain
DefaultLine8 == <<"T","h","e"," ","s","e","c","r","e","t"," ","o","f"," ","g","e","t","t","i",
    "n","g"," ","a","h","e","a","d"," ","i","s"," ","g","e","t","t","i","n","g"," ","s","t","a",
    "r","t","e","d",".","|","M","a","r","k"," ","T","w","a","i","n">>
\* Small steps every day.|Unknown
DefaultLine9 == <<"S","m","a","l","l"," ","s","t","e","p","s"," ","e","v","e","r","y"," ","d",
    "a","y",".","|","U","n","k","n","o","w","n">>
\* Do one thing every day that scares you.|Eleanor Roosevelt
DefaultLine10 == <<"D","o"," ","o","n","e"," ","t","h","i","n","g"," ","e","v","e","r","y"," ",
    "d","a","y"," ","t","h","a","t"," ","s","c","a","r","e","s"," ","y","o","u",".","|","E","l",
    "e","a","n","o","r"," ","R","o","o","s","e","v","e","l","t">>

DEFAULT_QUOTES ==
    <<DefaultLine1, DefaultLine2, DefaultLine3, DefaultLine4, DefaultLine5,
      DefaultLine6, DefaultLine7, DefaultLine8, DefaultLine9, DefaultLine10>>

----------------------------------------------------------------------------
(* The storage file *)

NoFile == [exists |-> FALSE, content |-> <<>>]

\* os.path.exists(QUOTES_FILE)
path_exists(f) == f.exists

\* open_w opening the file for update: its content is kept
open_w_keep(f) == [exists |-> TRUE, content |-> f.content]

\* open(QUOTES_FILE, "w"): creates the file, or truncates it to length 0
open_w(f) == [exists |-> TRUE, content |-> <<>>]

\* closing a file opened with "w" flushes the buffered text: it is written
\* from offset 0 over whatever the file holds at that moment
close_w(f, data) ==
    [exists |-> TRUE,
     content |-> data \o SubSeq(f.content, Len(data) + 1, Len(f.content))]

RECURSIVE default_text(_)
\* what the loop of ensure_quotes_file writes for DEFAULT_QUOTES[i..]
default_text(i) ==
    IF i > Len(DEFAULT_QUOTES) THEN <<>>
    ELSE strip(DEFAULT_QUOTES[i]) \o <<"\n">> \o default_text(i + 1)

\* ensure_quotes_file creating the file and writing nothing to it
ensure_quotes_file_unwritten(f) ==
    IF ~path_exists(f) THEN open_w(f) ELSE f

\* ensure_quotes_file without the test for an existing file
ensure_quotes_file_always(f) == close_w(open_w(f), default_text(1))

ensure_quotes_file(f) ==
    IF ~path_exists(f) THEN close_w(open_w(f), default_text(1)) ELSE f

RECURSIVE read_quotes(_, _, _)
\* the loop of load_quotes over the lines of the text that start at offset i
\* or later; nls holds the offsets of the text's newlines.  A line runs to
\* its newline, the last one to the end of the text.
read_quotes(text, nls, i) ==
    IF i > Len(text) THEN <<>>
    ELSE LET rest  == {k \in nls : k >= i}
             nl    == IF rest = {} THEN Len(text) ELSE Least(rest)
             raw   == strip(SubSeq(text, i, nl))
             parts == split_pipe(raw)
             q     == IF has_pipe(raw)
                      THEN [text |-> strip(parts[1]), author |-> strip(parts[2])]
                      ELSE [text |-> strip(raw), author |-> strip(Unknown)]
         IN  (IF raw = <<>> THEN <<>> ELSE <<q>>) \o read_quotes(text, nls, nl + 1)

\* returns the file as ensure_quotes_file leaves it, and the list
load_quotes(f) ==
    LET g == ensure_quotes_file(f)
    IN  [fs |-> g, quotes |-> read_quotes(g.content, indices(g.content, "\n"), 1)]

RECURSIVE quotes_text(_, _)
\* what the loop of save_quotes writes for quotes[i..]
quotes_text(quotes, i) ==
    IF i > Len(quotes) THEN <<>>
    ELSE LET text   == quotes[i].text
             author == quotes[i].author
         IN  (IF author # <<>> /\ lower(author) # unknown
              THEN text \o <<"|">> \o author \o <<"\n">>
              ELSE text \o <<"\n">>)
             \o quotes_text(quotes, i + 1)

\* save_quotes writing the text of every quote and no author
save_quotes_bare(f, quotes) ==
    close_w(open_w(f),
            quotes_text([i \in 1..Len(quotes) |-> [text |-> quotes[i].text, author |-> <<>>]], 1))

save_quotes(f, quotes) == close_w(open_w(f), quotes_text(quotes, 1))

----------------------------------------------------------------------------
(* The commands.  Each returns [fs, out, loaded]: the file it leaves, the  *)
(* lines it prints and the list it loaded (<<>> when it loads none).       *)

Line(fmt, args) == [fmt |-> fmt, args |-> args]

print_random_quote(f, k) ==
    LET l == load_quotes(f)
    IN  [fs |-> l.fs, loaded |-> <<l.quotes>>,
         out |-> IF l.quotes = <<>>
                 THEN <<Line("No quotes found. Add one with --add.", <<>>)>>
                 ELSE <<Line("\"{text}\" -- {author}",
                             <<l.quotes[k].text, l.quotes[k].author>>)>>]

list_quotes(f) ==
    LET l == load_quotes(f)
    IN  [fs |-> l.fs, loaded |-> <<l.quotes>>,
         out |-> IF l.quotes = <<>>
                 THEN <<Line("No quotes yet. Add some with --add.", <<>>)>>
                 ELSE [i \in 1..Len(l.quotes) |->
                          Line("{i}. {text} -- {author}",
                               <<i, l.quotes[i].text, l.quotes[i].author>>)]]

\* print(len(load_quotes())), in main
count_quotes(f) ==
    LET l == load_quotes(f)
    IN  [fs |-> l.fs, loaded |-> <<l.quotes>>,
         out |-> <<Line("{len}", <<Len(l.quotes)>>)>>]

add_quote(f, raw0) ==
    LET raw == strip(raw0)
    IN  IF raw = <<>>
        THEN [fs |-> f, loaded |-> <<>>,
              out |-> <<Line("Provide a non-empty quote.", <<>>)>>]
        ELSE LET parts  == split_pipe(raw)
                 text   == IF has_pipe(raw) THEN parts[1] ELSE raw
                 author == IF has_pipe(raw) THEN parts[2] ELSE Unknown
                 l      == load_quotes(f)
                 quotes == Append(l.quotes, [text |-> strip(text), author |-> strip(author)])
             IN  [fs |-> save_quotes(l.fs, quotes), loaded |-> <<l.quotes>>,
                  out |-> <<Line("Added.", <<>>)>>]

\* quotes.pop(index - 1), the list left
pop(quotes, index) ==
    SubSeq(quotes, 1, index - 1) \o SubSeq(quotes, index + 1, Len(quotes))

\* remove_quote saving the list before it tests the index
remove_quote_saving(f, index) ==
    LET l == load_quotes(f)
        g == save_quotes(l.fs, l.quotes)
    IN  IF ~(1 <= index /\ index <= Len(l.quotes))
        THEN [fs |-> g, loaded |-> <<l.quotes>>,
              out |-> <<Line("Index out of range. Must be 1..{len}", <<Len(l.quotes)>>)>>]
        ELSE LET removed == l.quotes[index]
             IN  [fs |-> save_quotes(g, pop(l.quotes, index)), loaded |-> <<l.quotes>>,
                  out |-> <<Line("Removed: \"{text}\" -- {author}",
                                 <<removed.text, removed.author>>)>>]

remove_quote(f, index) ==
    LET l == load_quotes(f)
    IN  IF ~(1 <= index /\ index <= Len(l.quotes))
        THEN [fs |-> l.fs, loaded |-> <<l.quotes>>,
              out |-> <<Line("Index out of range. Must be 1..{len}", <<Len(l.quotes)>>)>>]
        ELSE LET removed == l.quotes[index]
             IN  [fs |-> save_quotes(l.fs, pop(l.quotes, index)), loaded |-> <<l.quotes>>,
                  out |-> <<Line("Removed: \"{text}\" -- {author}",
                                 <<removed.text, removed.author>>)>>]

----------------------------------------------------------------------------
(* Invocations.  An optional argument is <<>> (None) or <<value>>.          *)

NoArgs == [add |-> <<>>, remove |-> <<>>, list |-> FALSE, count |-> FALSE]

\* the --add arguments tried
AddInputs ==
    { <<>>,
      <<" "," ">>,
      <<"T","e","s","t"," ","q","u","o","t","e",".","|","A","d","a"," ","L","o","v","e","l","a","c","e">>,
      <<"J","u","s","t"," ","t","e","x","t",","," ","n","o"," ","p","i","p","e",".">>,
      <<" "," ","H","i"," ","|"," ","A","l"," ">>,
      <<"|">>,
      <<"|","A","l">>,
      <<"H","i","|">>,
      <<"H","i","|","u","n","k","n","o","w","n">>,
      <<"H","i","|","U","n","k","n","o","w","n">>,
      <<"H","i","|","A","l","|","B","o">>,
      <<"H","i","\n","Y","o","|","A","l">> }

\* the --remove arguments tried on file f: below, in and beyond the list
RemoveArgs(f) == -1..(Len(load_quotes(f).quotes) + MaxBeyond)

\* the command lines tried on file f: each flag alone, no flag, and flags
\* together
Argv(f) ==
    {[NoArgs EXCEPT !.add = <<r>>] : r \in AddInputs}
    \cup {[NoArgs EXCEPT !.remove = <<n>>] : n \in RemoveArgs(f)}
    \cup {NoArgs, [NoArgs EXCEPT !.list = TRUE], [NoArgs EXCEPT !.count = TRUE]}
    \cup {[add |-> <<r>>, remove |-> <<1>>, list |-> TRUE, count |-> TRUE] :
            r \in {<<>>, <<"H","i","|","A","l">>}}
    \cup {[add |-> <<<<"H","i","|","A","l">>>>, remove |-> <<0>>, list |-> FALSE, count |-> FALSE],
          [add |-> <<<<>>>>, remove |-> <<>>, list |-> TRUE, count |-> FALSE],
          [add |-> <<<<" "," ">>>>, remove |-> <<>>, list |-> FALSE, count |-> TRUE],
          [add |-> <<>>, remove |-> <<0>>, list |-> TRUE, count |-> TRUE],
          [add |-> <<>>, remove |-> <<1>>, list |-> TRUE, count |-> FALSE],
          [add |-> <<>>, remove |-> <<>>, list |-> TRUE, count |-> TRUE]}

\* the storage files an invocation may find: none, and files written by hand
InitialFiles ==
    { NoFile,
      [exists |-> TRUE, content |-> <<>>],
      [exists |-> TRUE, content |-> <<"H","i","|","A","l","\n","Y","o","\n","G","o","|","B","o","\n">>],
      [exists |-> TRUE, content |-> <<"H","i","|","A","l","\n","\n"," "," ","Y","o"," "," ","\n","G","o"," ","|"," ","B","o">>],
      [exists |-> TRUE, content |-> <<"|","\n","H","i","|","u","n","k","n","o","w","n","\n","Y","o","|","A","l","\n">>] }

\* the files among them that hold only quotes with a text and an author
CleanFiles ==
    {f \in InitialFiles :
        \A i \in 1..Len(load_quotes(f).quotes) :
            /\ load_quotes(f).quotes[i].text # <<>>
            /\ load_quotes(f).quotes[i].author # <<>>}

\* nothing has run
Idle ==
    /\ argv = NoArgs
    /\ ran = "none"
    /\ before = fs
    /\ loaded = <<>>
    /\ out = <<>>
    /\ invocations = 0

Init ==
    /\ fs \in InitialFiles
    /\ Idle
    /\ procs = <<>>
    /\ log = <<>>
    /\ rt = [pc |-> "none", list |-> <<>>]

\* a fresh environment, or a store of well-formed lines
InitClean == Init /\ fs \in CleanFiles

\* what an invocation leaves, r being the result of the command it ran
Ran(a, name, r) ==
    /\ invocations < MaxInvocations
    /\ invocations' = invocations + 1
    /\ argv' = a
    /\ ran' = name
    /\ before' = fs
    /\ fs' = r.fs
    /\ loaded' = r.loaded
    /\ out' = r.out
    /\ UNCHANGED <<procs, log, rt>>

\* the truth value Python gives an optional string: None and "" are false
Truthy(opt) == opt # <<>> /\ opt[1] # <<>>

\* main, lines 116-118
RunAdd(a) ==
    /\ Truthy(a.add)
    /\ Ran(a, "add_quote", add_quote(fs, a.add[1]))

\* main, lines 119-121
RunRemove(a) ==
    /\ ~Truthy(a.add)
    /\ a.remove # <<>>
    /\ Ran(a, "remove_quote", remove_quote(fs, a.remove[1]))

\* main, lines 122-124
RunList(a) ==
    /\ ~Truthy(a.add)
    /\ a.remove = <<>>
    /\ a.list
    /\ Ran(a, "list_quotes", list_quotes(fs))

\* main, lines 125-127
RunCount(a) ==
    /\ ~Truthy(a.add)
    /\ a.remove = <<>>
    /\ ~a.list
    /\ a.count
    /\ Ran(a, "count", count_quotes(fs))

\* main, line 130; random.choice picks any position of the list
RunRandom(a) ==
    /\ ~Truthy(a.add)
    /\ a.remove = <<>>
    /\ ~a.list
    /\ ~a.count
    /\ \E k \in 1..(IF load_quotes(fs).quotes = <<>> THEN 1 ELSE Len(load_quotes(fs).quotes)) :
          Ran(a, "print_random_quote", print_random_quote(fs, k))

Next ==
    \/ \E a \in Argv(fs) : RunAdd(a)
    \/ \E a \in Argv(fs) : RunRemove(a)
    \/ \E a \in Argv(fs) : RunList(a)
    \/ \E a \in Argv(fs) : RunCount(a)
    \/ \E a \in Argv(fs) : RunRandom(a)

Spec == Init /\ [][Next]_vars

\* the same invocations, from a fresh environment or a well-formed store
SpecClean == InitClean /\ [][Next]_vars

----------------------------------------------------------------------------
(* Two invocations at once.  Nothing coordinates the processes: each runs  *)
(* add_quote or remove_quote through its file operations, one at a time,   *)
(* and the operations of the two interleave freely.  The texts written are *)
(* shorter than the buffer of the file object, so each reaches the file in *)
(* one write, when the file is closed.                                     *)

Procs == {1, 2}

Job(cmd, raw, index) == [cmd |-> cmd, raw |-> raw, index |-> index]

\* the commands the processes run
ConcJobs ==
    { Job("add", <<"H","i","|","A","l">>, 0),
      Job("add", <<"T","e","s","t"," ","q","u","o","t","e",".","|","A","d","a"," ","L","o","v","e","l","a","c","e">>, 0),
      Job("add", <<" "," ">>, 0),
      Job("remove", <<>>, 1),
      Job("remove", <<>>, 0) }

\* the storage files they find
ConcFiles ==
    { NoFile,
      [exists |-> TRUE, content |-> <<"H","i","|","A","l","\n","Y","o","\n","G","o","|","B","o","\n">>] }

InitConc ==
    /\ fs \in ConcFiles
    /\ Idle
    /\ procs \in [Procs -> {[pc |-> "start", job |-> j, quotes |-> <<>>] : j \in ConcJobs}]
    /\ log = <<>>
    /\ rt = [pc |-> "none", list |-> <<>>]

At(p, pc) == procs # <<>> /\ procs[p].pc = pc

Goto(p, pc) == procs' = [procs EXCEPT ![p].pc = pc]

Event(p, ev, data) == [proc |-> p, ev |-> ev, data |-> data]

\* add_quote lines 85-88, then ensure_quotes_file line 35
Check(p) ==
    /\ At(p, "start")
    /\ IF procs[p].job.cmd = "add" /\ strip(procs[p].job.raw) = <<>>
       THEN Goto(p, "done")
       ELSE IF ~path_exists(fs) THEN Goto(p, "create") ELSE Goto(p, "read")
    /\ UNCHANGED <<fs, log, rt, seqvars>>

\* ensure_quotes_file line 36
CreateOpen(p) ==
    /\ At(p, "create")
    /\ fs' = open_w(fs)
    /\ log' = Append(log, Event(p, "open", <<>>))
    /\ Goto(p, "create_close")
    /\ UNCHANGED <<rt, seqvars>>

\* ensure_quotes_file lines 37-38, and the end of the with block
CreateClose(p) ==
    /\ At(p, "create_close")
    /\ fs' = close_w(fs, default_text(1))
    /\ log' = Append(log, Event(p, "close", default_text(1)))
    /\ Goto(p, "read")
    /\ UNCHANGED <<rt, seqvars>>

\* load_quotes lines 43-54, then add_quote lines 89-94 or remove_quote
\* lines 101-104
Read(p) ==
    /\ At(p, "read")
    /\ LET job    == procs[p].job
           raw    == strip(job.raw)
           parts  == split_pipe(raw)
           text   == IF has_pipe(raw) THEN parts[1] ELSE raw
           author == IF has_pipe(raw) THEN parts[2] ELSE Unknown
           quotes == read_quotes(fs.content, indices(fs.content, "\n"), 1)
       IN  IF job.cmd = "add"
           THEN procs' = [procs EXCEPT
                    ![p].pc = "save",
                    ![p].quotes = Append(quotes, [text |-> strip(text), author |-> strip(author)])]
           ELSE IF ~(1 <= job.index /\ job.index <= Len(quotes))
           THEN procs' = [procs EXCEPT ![p].pc = "done", ![p].quotes = quotes]
           ELSE procs' = [procs EXCEPT ![p].pc = "save", ![p].quotes = pop(quotes, job.index)]
    /\ UNCHANGED <<fs, log, rt, seqvars>>

\* save_quotes line 58
SaveOpen(p) ==
    /\ At(p, "save")
    /\ fs' = open_w(fs)
    /\ log' = Append(log, Event(p, "open", <<>>))
    /\ Goto(p, "save_close")
    /\ UNCHANGED <<rt, seqvars>>

\* save_quotes lines 59-63, and the end of the with block
SaveClose(p) ==
    /\ At(p, "save_close")
    /\ fs' = close_w(fs, quotes_text(procs[p].quotes, 1))
    /\ log' = Append(log, Event(p, "close", quotes_text(procs[p].quotes, 1)))
    /\ Goto(p, "done")
    /\ UNCHANGED <<rt, seqvars>>

NextConc ==
    \E p \in Procs :
        \/ Check(p)
        \/ CreateOpen(p)
        \/ CreateClose(p)
        \/ Read(p)
        \/ SaveOpen(p)
        \/ SaveClose(p)

SpecConc == InitConc /\ [][NextConc]_vars

----------------------------------------------------------------------------
(* save_quotes and load_quotes on lists that no invocation need have       *)
(* written: save, load, save again.                                        *)

\* the lists tried hold at most MaxList quotes
MaxList == 2

RTTexts == { <<"H","i">>, <<"H","i","|","Y","o">>, <<>>, <<" ","H","i">>, <<"G","o","\n","o","n">> }

RTAuthors == { <<"A","l">>, <<"A","l","|","B","o">>, <<>>, <<"U","n","k","n","o","w","n">>, <<"u","n","k","n","o","w","n">> }

RTQuotes == {[text |-> x, author |-> y] : x \in RTTexts, y \in RTAuthors}

RTLists == UNION {[1..n -> RTQuotes] : n \in 0..MaxList}

InitRoundTrip ==
    /\ fs = NoFile
    /\ Idle
    /\ procs = <<>>
    /\ log = <<>>
    /\ rt \in {[pc |-> "start", list |-> L] : L \in RTLists}

\* save_quotes(L)
RTSave ==
    /\ rt.pc = "start"
    /\ fs' = save_quotes(fs, rt.list)
    /\ rt' = [rt EXCEPT !.pc = "saved"]
    /\ UNCHANGED <<procs, log, seqvars>>

\* load_quotes()
RTLoad ==
    /\ rt.pc = "saved"
    /\ fs' = load_quotes(fs).fs
    /\ loaded' = <<load_quotes(fs).quotes>>
    /\ rt' = [rt EXCEPT !.pc = "loaded"]
    /\ UNCHANGED <<procs, log, argv, ran, before, out, invocations>>

\* save_quotes of the list loaded; before keeps the file of the first save
RTSaveAgain ==
    /\ rt.pc = "loaded"
    /\ before' = fs
    /\ fs' = save_quotes(fs, loaded[1])
    /\ rt' = [rt EXCEPT !.pc = "resaved"]
    /\ UNCHANGED <<procs, log, argv, ran, loaded, out, invocations>>

NextRoundTrip == RTSave \/ RTLoad \/ RTSaveAgain

SpecRoundTrip == InitRoundTrip /\ [][NextRoundTrip]_vars

----------------------------------------------------------------------------
(* Properties *)

\* the list load_quotes returns on the file as it is now
Stored == load_quotes(fs).quotes

\* the last invocation called load_quotes
Loaded == loaded # <<>>

\* the list it got
Got == loaded[1]

\* the last invocation ran remove_quote on index n
Removing(n) == ran = "remove_quote" /\ argv.remove = <<n>>

\* the commands that load and print only
ReadOnly == {"print_random_quote", "list_quotes", "count"}

\* C1: for every storage content and every index i in 1..count, remove(i)
\* followed by load yields the list loaded before without its i-th quote:
\* one quote fewer, the others unchanged and in their order.
C1_RemoveThenLoad ==
    \A i \in 1..(IF Loaded THEN Len(Got) ELSE 0) :
        Removing(i) => Stored = pop(Got, i)

\* the quote an --add argument stands for: the trimmed part left of the first
\* '|' and the trimmed part right of it, or the whole and "Unknown"
Meant(raw) ==
    IF has_pipe(raw)
    THEN [text |-> strip(split_pipe(raw)[1]), author |-> strip(split_pipe(raw)[2])]
    ELSE [text |-> strip(raw), author |-> Unknown]

\* C2: an add whose input is not empty after trimming, followed by load,
\* yields the list loaded before with exactly the quote meant appended.
C2_AddThenLoad ==
    (argv.add # <<>> /\ ran = "add_quote" /\ strip(argv.add[1]) # <<>>)
        => Stored = Append(Got, Meant(argv.add[1]))

\* text and author trimmed, no embedded newline
WellFormed(L) ==
    \A i \in 1..Len(L) :
        /\ strip(L[i].text) = L[i].text
        /\ strip(L[i].author) = L[i].author
        /\ indices(L[i].text, "\n") = {}
        /\ indices(L[i].author, "\n") = {}

\* save then load returned the list, and saving again wrote the same file
RoundTrips ==
    /\ rt.pc \in {"loaded", "resaved"} => Got = rt.list
    /\ rt.pc = "resaved" => fs = before

\* C3 as stated: for every well-formed list L, save then load returns
\* exactly L, and saving the loaded list again writes the same file.
C3_RoundTrip == WellFormed(rt.list) => RoundTrips

\* well-formed, and every text is non-empty and holds no '|', every author is
\* non-empty and is "Unknown" itself if it is "unknown" in any casing
Representable(L) ==
    /\ WellFormed(L)
    /\ \A i \in 1..Len(L) :
        /\ L[i].text # <<>>
        /\ ~has_pipe(L[i].text)
        /\ L[i].author # <<>>
        /\ lower(L[i].author) = unknown => L[i].author = Unknown

\* C3 amended: for every well-formed list whose texts are non-empty and free
\* of '|' and whose authors are non-empty and not a differently cased
\* "Unknown", save then load returns the list and saving again writes the
\* same file.
C3_RoundTripRepresentable == Representable(rt.list) => RoundTrips

C3_Witness ==
    /\ rt.pc = "resaved"
    /\ Representable(rt.list)
    /\ Len(rt.list) = 2
    /\ rt.list[1].author = Unknown
    /\ has_pipe(rt.list[2].author)
    /\ Got = rt.list
    /\ fs = before

\* the last invocation ran remove_quote on an index outside 1..count
Rejected ==
    /\ ran = "remove_quote"
    /\ Loaded
    /\ ~(1 <= argv.remove[1] /\ argv.remove[1] <= Len(Got))

\* it printed the range error, naming the length of the list
RangeError ==
    /\ Len(out) = 1
    /\ out[1].fmt = "Index out of range. Must be 1..{len}"
    /\ out[1].args = <<Len(Got)>>

\* C4 as stated: a remove with an index outside 1..count prints the range
\* error with the list's length and leaves the storage file unmodified.
C4_RejectedRemoveKeepsFile == Rejected => (RangeError /\ fs = before)

\* C4 amended: a remove with an index outside 1..count prints the range
\* error with the list's length; a storage file that existed is left
\* unmodified, and a missing one is created holding the default quotes.
C4_RejectedRemoveKeepsExistingFile ==
    Rejected =>
        /\ RangeError
        /\ before.exists => fs = before
        /\ ~before.exists => fs = [exists |-> TRUE, content |-> default_text(1)]

C4_Witness ==
    /\ Rejected
    /\ before.exists
    /\ Len(Got) > 0
    /\ argv.remove[1] = Len(Got) + 1
    /\ RangeError
    /\ fs = before

\* C5: an add whose argument is empty after trimming prints the empty-input
\* message, runs no other operation and writes nothing to the storage file.
C5_BlankAddRejected ==
    (argv.add # <<>> /\ strip(argv.add[1]) = <<>>) =>
        /\ ran = "add_quote"
        /\ Len(out) = 1
        /\ out[1].fmt = "Provide a non-empty quote."
        /\ fs = before

\* the ten default lines as a file
DefaultFile ==
    DefaultLine1 \o <<"\n">> \o DefaultLine2 \o <<"\n">> \o DefaultLine3 \o <<"\n">>
    \o DefaultLine4 \o <<"\n">> \o DefaultLine5 \o <<"\n">> \o DefaultLine6 \o <<"\n">>
    \o DefaultLine7 \o <<"\n">> \o DefaultLine8 \o <<"\n">> \o DefaultLine9 \o <<"\n">>
    \o DefaultLine10 \o <<"\n">>

\* the last invocation started without a storage file and loaded
FreshLoad == ran # "none" /\ ~before.exists /\ Loaded

\* it got the ten default quotes in their order, each from a text|author
\* line, and an invocation that only loads leaves a file of those ten lines
GotDefaults ==
    /\ Len(Got) = 10
    /\ \A i \in 1..10 : Got[i].text \o <<"|">> \o Got[i].author = DEFAULT_QUOTES[i]
    /\ ran \in ReadOnly => (fs.exists /\ fs.content = DefaultFile)

\* C6 as stated: in a fresh environment the first load returns the ten
\* default quotes in order, the file then holds the same ten text|author
\* entries, and no default entry has the author "Unknown".
C6_FreshLoadNoUnknown ==
    FreshLoad => (GotDefaults /\ \A i \in 1..Len(Got) : Got[i].author # Unknown)

\* C6 amended: in a fresh environment the first load returns the ten default
\* quotes in order and the file then holds the same ten text|author entries;
\* the ninth default entry, and no other, has the author "Unknown".
C6_FreshLoadNinthUnknown ==
    FreshLoad => (GotDefaults /\ \A i \in 1..Len(Got) : (Got[i].author = Unknown) <=> (i = 9))

C6_Witness ==
    /\ FreshLoad
    /\ ran = "count"
    /\ GotDefaults
    /\ Got[9].author = Unknown
    /\ out[1].args = <<10>>

\* the operation the precedence add > remove > list > count > random
\* selects for the flags given
Selected(a) ==
    IF a.add # <<>> THEN "add_quote"
    ELSE IF a.remove # <<>> THEN "remove_quote"
    ELSE IF a.list THEN "list_quotes"
    ELSE IF a.count THEN "count"
    ELSE "print_random_quote"

\* C7: every invocation runs the one operation selected by the precedence
\* add > remove > list > count > random over the flags given, whatever the
\* flags' arguments.
C7_Precedence == ran # "none" => ran = Selected(argv)

\* C8: in every state reached by invocations from a fresh or well-formed
\* store, every quote load returns has a non-empty text and a non-empty
\* author.
C8_NoEmptyField ==
    \A i \in 1..Len(Stored) : Stored[i].text # <<>> /\ Stored[i].author # <<>>

\* C9: ensure_quotes_file leaves an existing storage file, of whatever
\* content, unchanged, called once or twice, so an invocation that only
\* loads (random, list, count) leaves an existing storage file unchanged.
C9_EnsureKeepsExistingFile ==
    /\ fs.exists =>
        /\ ensure_quotes_file(fs) = fs
        /\ ensure_quotes_file(ensure_quotes_file(fs)) = ensure_quotes_file(fs)
    /\ (ran \in ReadOnly /\ before.exists) => fs = before

C9_Witness ==
    /\ ran = "list_quotes"
    /\ before.exists
    /\ before.content = <<>>
    /\ out[1].fmt = "No quotes yet. Add some with --add."
    /\ fs = before

\* both processes have finished
AllDone == procs # <<>> /\ \A p \in Procs : procs[p].pc = "done"

\* the text of the write completed last
LastWritten ==
    LET closes == {i \in 1..Len(log) : log[i].ev = "close"}
    IN  log[CHOOSE i \in closes : \A j \in closes : j <= i].data

\* some process opened the file for writing and, before it closed it, the
\* other opened or closed it
Overlapped ==
    \E i \in 1..Len(log) :
        /\ log[i].ev = "open"
        /\ i = Len(log) \/ log[i + 1].proc # log[i].proc

\* the processes that wrote
Writers == {log[i].proc : i \in 1..Len(log)}

\* C10 as stated: after two concurrent invocations have finished, the
\* storage file is exactly what the last of their writes wrote.
C10_LastWriterWins == (AllDone /\ log # <<>>) => fs.content = LastWritten

\* C10 amended: after two concurrent invocations have finished, the storage
\* file is exactly what the last of their writes wrote provided no rewrite
\* (from opening the file to closing it) overlapped an opening or closing by
\* the other process.
C10_LastWriterWinsUnlessOverlapped ==
    (AllDone /\ log # <<>> /\ ~Overlapped) => fs.content = LastWritten

\* both added a quote, one after the other, and the first one's is lost
C10_Witness ==
    /\ AllDone
    /\ Writers = Procs
    /\ ~Overlapped
    /\ \A p \in Procs : procs[p].job.cmd = "add"
    /\ fs.content = LastWritten
    /\ Len(Stored) = 4

====
